---- MODULE Spec2Model ----
(***************************************************************************)
(* A model of the Valorant client of valorant/valorant.py: the constructor *)
(* (login, region resolution, base URLs, user info) and the endpoint       *)
(* methods, each of which builds a URL, evaluates its headers (the tokens   *)
(* read from Auth and, for five endpoints, the client version fetched from *)
(* the version endpoint), sends one HTTP request, waits for the answer and *)
(* decodes its JSON body.                                                  *)
(*                                                                         *)
(* valorant.classes (Auth) and valorant.constants (URLS, API, Region,      *)
(* regions) are imported by the source but are not part of it; they are    *)
(* modelled from the specification (TokenSet, RegionTable, path suffixes). *)
(*                                                                         *)
(* Left out: get_border_level (two endpoint calls and a request to a       *)
(* public metadata service, composed), get_xmpp_socket (a stub), and the   *)
(* X-Riot-ClientPlatform header, a constant computed without I/O.          *)
(***************************************************************************)
EXTENDS Integers, Sequences, FiniteSets, TLC

VARIABLES
    init_pc,      \* position of Valorant.__init__
    init_err,     \* the exception __init__ raised, "none" if none
    steps,        \* the constructor steps completed, in order
    cookies,      \* Auth: the cookie jar is established
    tokens,       \* Auth: the current TokenSet (generation numbers, 0 = absent)
    region,       \* self.region
    pd_server,    \* self.pd_server
    glz_server,   \* self.glz_server
    user_info,    \* self.user_info
    geo_calls,    \* requests sent to the geolocation endpoint
    geo_live,     \* the "live" affinity of the decoded geolocation answer
    srv_valid,    \* the token generation the servers accept (0: none, expired)
    th            \* per caller thread: the endpoint call in progress

vars == <<init_pc, init_err, steps, cookies, tokens, region, pd_server,
          glz_server, user_info, geo_calls, geo_live, srv_valid, th>>

client == <<init_pc, init_err, steps, cookies, region, pd_server, glz_server,
            user_info, geo_calls, geo_live>>

\* the attributes of the client object and the progress of its constructor
attrs == <<init_pc, init_err, steps, cookies, region, pd_server, glz_server,
           user_info>>

-----------------------------------------------------------------------------
(* Bounds *)

\* the number of token refreshes the application may perform
MaxRefresh == 2

\* the number of requests the geolocation service is sent
MaxGeoCalls == 2

Threads == {1, 2}

PlayerIds == {"u1"}
MatchIds == {"m1", "m2"}
AgentIds == {"a1"}
SeasonIds == {"s1"}
Starts == {0, 12}
Amounts == {5, 510}
\* an optional argument: <<>> is None, <<v>> is the value v
Usernames == {<<>>, <<"">>, <<"bob">>}
GivenMatchIds == {<<>>, <<"m9">>}
GivenPlayerIds == {<<>>, <<"p2">>}
ItemTypes == {"skins"}
\* the affinity codes the geolocation service may answer with
AffinityCodes == {"na1", "br1", "eu", "xx9"}

-----------------------------------------------------------------------------
(* Python values *)

Unset == "<unset>"
NoRegion == [region |-> Unset, shard |-> Unset]
NoUser == [sub |-> Unset]
\* the value standing for a dict without the key "sub"
NoSub == "<missing>"
NoTokens == [access |-> 0, id |-> 0, entitlement |-> 0]
PyNone == [type |-> "None"]
NotJson == [type |-> "notjson"]

Digit(d) == CASE d = 0 -> "0" [] d = 1 -> "1" [] d = 2 -> "2" [] d = 3 -> "3"
              [] d = 4 -> "4" [] d = 5 -> "5" [] d = 6 -> "6" [] d = 7 -> "7"
              [] d = 8 -> "8" [] d = 9 -> "9"

RECURSIVE NatToStr(_)
NatToStr(n) == IF n < 10 THEN Digit(n) ELSE NatToStr(n \div 10) \o Digit(n % 10)

\* f"{n}" for an int
IntToStr(n) == IF n < 0 THEN "-" \o NatToStr(0 - n) ELSE NatToStr(n)

\* a str value
Str(s) == [type |-> "str", s |-> s]

\* the body of a get_pregame_id answer for a player in a pre-game
PregameBody(sub, mid) == [type |-> "pregame", Subject |-> sub, MatchID |-> mid, Version |-> 1]

\* the body the servers send with a 401
ErrorBody == [type |-> "error", httpStatus |-> 401, errorCode |-> "BAD_CLAIMS"]

\* any other decoded JSON object
DataBody == [type |-> "data"]

\* the body of a geolocation answer: {"affinities": {"live": code}}
GeoBody(code) == [type |-> "geo", live |-> code]

\* repr() of a decoded JSON object
PyRepr(v) ==
    CASE v.type = "pregame" ->
           "{'Subject': '" \o v.Subject \o "', 'MatchID': '" \o v.MatchID
              \o "', 'Version': " \o IntToStr(v.Version) \o "}"
      [] v.type = "error" ->
           "{'httpStatus': " \o IntToStr(v.httpStatus) \o ", 'errorCode': '"
              \o v.errorCode \o "'}"
      [] v.type = "data" -> "{}"
      [] v.type = "str" -> "'" \o v.s \o "'"

\* f"{v}": a str is inserted as it is, a dict by its repr
PyFormat(v) == IF v.type = "str" THEN v.s ELSE PyRepr(v)

\* bool(x) of an optional str: None and "" are false
Truthy(opt) == opt # <<>> /\ opt[1] # ""

\* f"{x}" of an optional str
FormatOpt(opt) == IF opt = <<>> THEN "None" ELSE opt[1]

-----------------------------------------------------------------------------
(* valorant.constants: URLS, API and the region table *)

USERINFO_URL == "https://auth.riotgames.com/userinfo"

\* line 80
GEO_URL == "https://riot-geo.pas.si.riotgames.com/pas/v1/product/valorant"

API_CONTENT == "/content-service/v3/content"
API_ACCOUNT_XP == "/account-xp/v1/players"
API_PERSONALIZATION == "/personalization/v2/players"
API_MMR == "/mmr/v1/players"
API_HISTORY == "/match-history/v1/history"
API_MATCHES == "/match-details/v1/matches"
API_LEADERBOARD == "/mmr/v1/leaderboards/affinity/na/queue/competitive/season"
API_PENALTIES == "/restrictions/v3/penalties"
API_CONFIG == "/v1/config"
API_PRICES == "/store/v1/offers"
API_STORE == "/store/v2/storefront"
API_WALLET == "/store/v1/wallet"
API_OWNED == "/store/v1/entitlements"
API_PREGAME_PLAYER == "/pregame/v1/players"
API_PREGAME_MATCH == "/pregame/v1/matches"
API_CURRENT_GAME_PLAYER == "/core-game/v1/players"
API_CURRENT_GAME_MATCH == "/core-game/v1/matches"
API_ITEM_UPGRADES == "/contract-definitions/v3/item-upgrades"
API_CONTRACTS == "/contracts/v1/contracts"

\* the codes the region table has an entry for
RegionCodes == {"na1", "br1", "eu"}

\* regions: code -> Region(region, shard)
regions(code) ==
    CASE code = "na1" -> [region |-> "na1", shard |-> "na1"]
      [] code = "br1" -> [region |-> "br1", shard |-> "na1"]
      [] code = "eu" -> [region |-> "eu", shard |-> "eu"]

\* regions[code]: the entry, or the KeyError of a subscript with no entry
RegionLookup(code) ==
    IF code \in RegionCodes
    THEN [ok |-> TRUE, value |-> regions(code), exc |-> "none"]
    ELSE [ok |-> FALSE, value |-> NoRegion, exc |-> "KeyError"]

-----------------------------------------------------------------------------
(* valorant.classes.Auth *)

\* the ways the login handshake fails
AuthErrors == {"InvalidCredentials", "ChallengeRequired", "TokenParseFailure"}

\* a complete TokenSet of generation g
TokenSet(g) == [access |-> g, id |-> g, entitlement |-> g]

get_access_token == tokens.access
get_id_token == tokens.id
get_entitlement_token == tokens.entitlement

\* Auth.refresh, called through client.auth by a caller thread that is not
\* inside an endpoint call: the whole TokenSet is replaced
AuthRefresh(t) ==
    /\ init_pc = "ready"
    /\ th[t].pc \in {"idle", "done"}
    /\ tokens.access <= MaxRefresh
    /\ tokens' = TokenSet(tokens.access + 1)
    /\ srv_valid' = tokens.access + 1
    /\ UNCHANGED <<client, th>>

\* the servers stop accepting the tokens issued last
Expire ==
    /\ srv_valid # 0
    /\ srv_valid' = 0
    /\ UNCHANGED <<client, tokens, th>>

\* the status a server answers a request carrying access token acc with
StatusFor(acc) == IF acc # 0 /\ acc = srv_valid THEN 200 ELSE 401

-----------------------------------------------------------------------------
(* Valorant.__init__ *)

\* an exception leaves __init__: no object is constructed
InitFail(exc) ==
    /\ init_pc' = "failed"
    /\ init_err' = exc

\* the ways a version lookup (line 22, lines 51-54) fails: the request itself,
\* .json() on a body that is not JSON, ["data"][...] on JSON without these keys
VersionErrors == {"ConnectionError", "JSONDecodeError", "KeyError"}

\* line 22: the build number is fetched from the version endpoint
InitVersion ==
    /\ init_pc = "start"
    /\ \/ /\ init_pc' = "cookies"
          /\ steps' = Append(steps, "version")
          /\ UNCHANGED init_err
       \/ /\ \E e \in VersionErrors : InitFail(e)
          /\ UNCHANGED steps
    /\ UNCHANGED <<cookies, tokens, region, pd_server, glz_server, user_info,
                   geo_calls, geo_live, srv_valid, th>>

\* line 29: self.auth.set_auth_cookies()
set_auth_cookies ==
    /\ init_pc = "cookies"
    /\ \/ /\ init_pc' = "region"
          /\ steps' = Append(steps, "set_auth_cookies")
          /\ cookies' = TRUE
          /\ tokens' = TokenSet(1)
          /\ srv_valid' = 1
          /\ UNCHANGED init_err
       \/ /\ \E e \in AuthErrors : InitFail(e)
          /\ UNCHANGED <<steps, cookies, tokens, srv_valid>>
    /\ UNCHANGED <<region, pd_server, glz_server, user_info, geo_calls, geo_live, th>>

\* lines 88-89: the decoded geolocation answer is looked up in the region table
RegionOf(status, is_json, affinity) ==
    IF ~is_json THEN [ok |-> FALSE, value |-> NoRegion, exc |-> "JSONDecodeError"]
    ELSE IF status # 200 THEN [ok |-> FALSE, value |-> NoRegion, exc |-> "KeyError"]
    ELSE RegionLookup(affinity)

\* line 31 asking the geolocation service again when the table has no entry
InitRegion_retry ==
    /\ init_pc = "region"
    /\ geo_calls' = geo_calls + 1
    /\ \E is_json \in BOOLEAN, affinity \in AffinityCodes :
         LET status == StatusFor(get_access_token)
             r == RegionOf(status, is_json, affinity) IN
         /\ geo_live' = IF is_json /\ status = 200 THEN affinity ELSE geo_live
         /\ IF r.ok
            THEN
              /\ region' = r.value
              /\ init_pc' = "urls"
              /\ steps' = Append(steps, "get_region")
              /\ UNCHANGED init_err
            ELSE IF is_json /\ status = 200 /\ geo_calls = 0
            THEN UNCHANGED <<init_pc, init_err, region, steps>>
            ELSE
              /\ InitFail(r.exc)
              /\ UNCHANGED <<region, steps>>
    /\ UNCHANGED <<cookies, tokens, pd_server, glz_server, user_info, srv_valid, th>>

\* line 31: self.region = self.get_region(), the PUT of lines 79-88 and the
\* lookup of line 89 made by the constructor
InitRegion ==
    /\ init_pc = "region"
    /\ geo_calls' = geo_calls + 1
    /\ \E is_json \in BOOLEAN, affinity \in AffinityCodes :
         LET status == StatusFor(get_access_token)
             r == RegionOf(status, is_json, affinity) IN
         /\ geo_live' = IF is_json /\ status = 200 THEN affinity ELSE geo_live
         /\ IF r.ok
            THEN
              /\ region' = r.value
              /\ init_pc' = "urls"
              /\ steps' = Append(steps, "get_region")
              /\ UNCHANGED init_err
            ELSE
              /\ InitFail(r.exc)
              /\ UNCHANGED <<region, steps>>
    /\ UNCHANGED <<cookies, tokens, pd_server, glz_server, user_info, srv_valid, th>>

\* line 32
PdServer(r) == "https://pd." \o r.region \o ".a.pvp.net"

\* line 33 with the region and the shard exchanged
GlzServer_swapped(r) == "https://glz-" \o r.shard \o "-1." \o r.region \o ".a.pvp.net"

\* line 33
GlzServer(r) == "https://glz-" \o r.region \o "-1." \o r.shard \o ".a.pvp.net"

\* lines 32-33 placed before line 31: the URLs are built before the region is
\* resolved
InitUrls_early ==
    /\ init_pc = "region"
    /\ pd_server' = PdServer(region)
    /\ glz_server' = GlzServer(region)
    /\ init_pc' = "user_info"
    /\ steps' = Append(steps, "urls")
    /\ UNCHANGED <<init_err, cookies, tokens, region, user_info, geo_calls,
                   geo_live, srv_valid, th>>

\* lines 32-33: the two base URLs
InitUrls ==
    /\ init_pc = "urls"
    /\ pd_server' = PdServer(region)
    /\ glz_server' = GlzServer(region)
    /\ init_pc' = "user_info"
    /\ steps' = Append(steps, "urls")
    /\ UNCHANGED <<init_err, cookies, tokens, region, user_info, geo_calls,
                   geo_live, srv_valid, th>>

\* the decoded answers of the user-info endpoint: the account with a 200, an
\* error object without "sub" otherwise
UserInfoBodies(status) ==
    IF status = 200 THEN {[sub |-> p] : p \in PlayerIds} ELSE {[sub |-> NoSub]}

\* line 34: self.user_info = self.get_user_info(); a body that is not JSON
\* makes .json() raise
InitUserInfo ==
    /\ init_pc = "user_info"
    /\ \/ /\ user_info' \in UserInfoBodies(StatusFor(get_access_token))
          /\ init_pc' = "ready"
          /\ steps' = Append(steps, "get_user_info")
          /\ UNCHANGED init_err
       \/ /\ InitFail("JSONDecodeError")
          /\ UNCHANGED <<user_info, steps>>
    /\ UNCHANGED <<cookies, tokens, region, pd_server, glz_server, geo_calls,
                   geo_live, srv_valid, th>>

Construct == InitVersion \/ set_auth_cookies \/ InitRegion \/ InitUrls \/ InitUserInfo

-----------------------------------------------------------------------------
(* An endpoint call of one caller thread *)

NoResult == [kind |-> "none", value |-> PyNone, exc |-> "none"]
Return(v) == [kind |-> "return", value |-> v, exc |-> "none"]
Raise(e) == [kind |-> "raise", value |-> PyNone, exc |-> e]

Idle == [pc |-> "idle", ep |-> "none", phase |-> "main", cont |-> "none",
         agent |-> "", method |-> "", url |-> "", todo |-> <<>>, ent |-> 0,
         acc |-> 0, idt |-> 0, ver |-> FALSE, decode |-> TRUE, args |-> <<>>, lookup |-> PyNone, sent |-> <<>>,
         resp |-> [status |-> 0, body |-> PyNone], overlap |-> FALSE,
         result |-> NoResult, refreshed |-> 0]

\* the client object exists and thread t is not inside a call
CanCall(t) == init_pc = "ready" /\ th[t].pc \in {"idle", "done"}

\* the URL is built; the headers are evaluated next, in the order hdrs
Begin(t, ep, method, url, hdrs, decode) ==
    /\ th' = [th EXCEPT ![t] = [Idle EXCEPT !.pc = "hdr", !.ep = ep,
                                  !.method = method, !.url = url, !.todo = hdrs,
                                  !.decode = decode]]
    /\ UNCHANGED <<client, tokens, srv_valid>>

\* the call raises before any request is made
Fail(t, ep, exc) ==
    /\ th' = [th EXCEPT ![t] = [Idle EXCEPT !.pc = "done", !.ep = ep,
                                  !.result = Raise(exc)]]
    /\ UNCHANGED <<client, tokens, srv_valid>>

\* self.user_info["sub"] is part of the URL
BeginSub(t, ep, method, url, hdrs, decode) ==
    IF user_info.sub = NoSub
    THEN Fail(t, ep, "KeyError")
    ELSE Begin(t, ep, method, url, hdrs, decode)

\* player_id if given, else self.user_info["sub"]
PlayerOr(player_id) == IF player_id = <<>> THEN user_info.sub ELSE player_id[1]

BeginPlayer(t, ep, player_id, url, hdrs) ==
    IF player_id = <<>>
    THEN BeginSub(t, ep, "GET", url, hdrs, TRUE)
    ELSE Begin(t, ep, "GET", url, hdrs, TRUE)

\* the headers evaluated in the order of the dict literal: the entitlement
\* token, then the access token
EntAcc == <<"ent", "acc">>

\* the same after X-Riot-ClientVersion, which is self.client_version
VerEntAcc == <<"ver", "ent", "acc">>

\* lines 78-89 called on the constructed client: the Authorization header, then
\* the id_token of the JSON body; the Region is returned, not assigned
get_region(t) ==
    /\ CanCall(t)
    /\ geo_calls < MaxGeoCalls
    /\ Begin(t, "get_region", "PUT", GEO_URL, <<"acc", "id">>, TRUE)

\* lines 56-64
get_user_info(t) ==
    /\ CanCall(t)
    /\ Begin(t, "get_user_info", "POST", USERINFO_URL, <<"acc">>, TRUE)

\* lines 91-100
get_content(t) ==
    /\ CanCall(t)
    /\ Begin(t, "get_content", "GET", pd_server \o API_CONTENT, VerEntAcc, TRUE)

\* lines 102-109
get_account_xp(t) ==
    /\ CanCall(t)
    /\ BeginSub(t, "get_account_xp", "GET",
                pd_server \o API_ACCOUNT_XP \o "/" \o user_info.sub, EntAcc, TRUE)

\* lines 111-118
get_loadout(t) ==
    /\ CanCall(t)
    /\ BeginSub(t, "get_loadout", "GET",
                pd_server \o API_PERSONALIZATION \o "/" \o user_info.sub
                   \o "/playerloadout", EntAcc, TRUE)

\* lines 120-129: the response is not decoded, None is returned
set_loadout(t) ==
    /\ CanCall(t)
    /\ BeginSub(t, "set_loadout", "PUT",
                pd_server \o API_PERSONALIZATION \o "/" \o user_info.sub
                   \o "/playerloadout", EntAcc, FALSE)

\* lines 131-143
get_player_mmr(t) ==
    /\ CanCall(t)
    /\ \E player_id \in GivenPlayerIds :
         BeginPlayer(t, "get_player_mmr", player_id,
                     pd_server \o API_MMR \o "/" \o PlayerOr(player_id), VerEntAcc)

\* lines 145-156
get_match_history(t) ==
    /\ CanCall(t)
    /\ \E player_id \in GivenPlayerIds, offset \in Starts, amount \in Amounts :
         BeginPlayer(t, "get_match_history", player_id,
                     pd_server \o API_HISTORY \o "/" \o PlayerOr(player_id)
                        \o "?startIndex=" \o IntToStr(offset)
                        \o "&endIndex=" \o IntToStr(amount), EntAcc)

\* lines 158-165
get_match_details(t) ==
    /\ CanCall(t)
    /\ \E match_id \in MatchIds :
         Begin(t, "get_match_details", "GET",
               pd_server \o API_MATCHES \o "/" \o match_id, EntAcc, TRUE)

\* line 169: the conditional expression takes the whole concatenation as its
\* first operand: (base + path + parameters + query) if username else ""
LeaderboardUrl(season_id, start, amount, username) ==
    IF Truthy(username)
    THEN pd_server \o API_LEADERBOARD \o "/" \o season_id
            \o "?startIndex=" \o IntToStr(start) \o "&size=" \o IntToStr(amount)
            \o "&query=" \o FormatOpt(username)
    ELSE ""

\* lines 167-175
get_leaderboard(t) ==
    /\ CanCall(t)
    /\ \E season_id \in SeasonIds, start \in Starts, amount \in Amounts,
          username \in Usernames :
         /\ th' = [th EXCEPT ![t] =
                     [Idle EXCEPT !.pc = "hdr", !.ep = "get_leaderboard",
                                  !.method = "GET", !.todo = VerEntAcc,
                                  !.args = <<season_id, start, amount, username>>,
                                  !.url = LeaderboardUrl(season_id, start, amount,
                                                         username)]]
         /\ UNCHANGED <<client, tokens, srv_valid>>

\* lines 177-185
get_penalties(t) ==
    /\ CanCall(t)
    /\ Begin(t, "get_penalties", "GET", pd_server \o API_PENALTIES, EntAcc, TRUE)

\* get_config keeping the URL it built as the new base URL
get_config_rebase(t) ==
    /\ CanCall(t)
    /\ pd_server' = pd_server \o API_CONFIG \o "/" \o region.region
    /\ th' = [th EXCEPT ![t] = [Idle EXCEPT !.pc = "hdr", !.ep = "get_config",
                                  !.method = "GET", !.url = pd_server', !.todo = EntAcc]]
    /\ UNCHANGED <<init_pc, init_err, steps, cookies, region, glz_server,
                   user_info, geo_calls, geo_live, tokens, srv_valid>>

\* lines 187-194
get_config(t) ==
    /\ CanCall(t)
    /\ Begin(t, "get_config", "GET",
             pd_server \o API_CONFIG \o "/" \o region.region, EntAcc, TRUE)

\* lines 196-203
get_prices(t) ==
    /\ CanCall(t)
    /\ Begin(t, "get_prices", "GET", pd_server \o API_PRICES, EntAcc, TRUE)

\* lines 205-215: the Authorization header is evaluated first here, the
\* client version last
get_store(t) ==
    /\ CanCall(t)
    /\ BeginSub(t, "get_store", "GET",
                pd_server \o API_STORE \o "/" \o user_info.sub,
                <<"acc", "ent", "ver">>, TRUE)

\* lines 217-224
get_wallet(t) ==
    /\ CanCall(t)
    /\ BeginSub(t, "get_wallet", "GET",
                pd_server \o API_WALLET \o "/" \o user_info.sub, EntAcc, TRUE)

\* lines 226-234
get_items(t) ==
    /\ CanCall(t)
    /\ \E item_type \in ItemTypes :
         BeginSub(t, "get_items", "GET",
                  pd_server \o API_OWNED \o "/" \o user_info.sub \o "/" \o item_type,
                  EntAcc, TRUE)

\* line 241
PregameIdUrl(player) == glz_server \o API_PREGAME_PLAYER \o "/" \o player

\* lines 236-246
get_pregame_id(t) ==
    /\ CanCall(t)
    /\ \E player_id \in GivenPlayerIds :
         BeginPlayer(t, "get_pregame_id", player_id,
                     PregameIdUrl(PlayerOr(player_id)), EntAcc)

\* lines 308-319
get_current_game_player(t) ==
    /\ CanCall(t)
    /\ \E player_id \in GivenPlayerIds :
         BeginPlayer(t, "get_current_game_player", player_id,
                     glz_server \o API_CURRENT_GAME_PLAYER \o "/" \o PlayerOr(player_id),
                     EntAcc)

\* lines 345-352
get_item_upgrades(t) ==
    /\ CanCall(t)
    /\ Begin(t, "get_item_upgrades", "GET", pd_server \o API_ITEM_UPGRADES,
             EntAcc, TRUE)

\* lines 354-365
get_contracts(t) ==
    /\ CanCall(t)
    /\ \E player_id \in GivenPlayerIds :
         BeginPlayer(t, "get_contracts", player_id,
                     pd_server \o API_CONTRACTS \o "/" \o PlayerOr(player_id),
                     VerEntAcc)

-----------------------------------------------------------------------------
(* The endpoints addressed by a match ID *)

\* line 253
get_pregame_match_url(mid) == glz_server \o API_PREGAME_MATCH \o "/" \o PyFormat(mid)

\* line 265
get_pregame_loadout_url(mid) ==
    glz_server \o API_PREGAME_MATCH \o "/" \o PyFormat(mid) \o "/loadouts"

\* line 277
select_agent_url(agent_id, mid) ==
    glz_server \o API_MATCHES \o "/" \o PyFormat(mid) \o "/select/" \o agent_id

\* line 289
lock_agent_url(agent_id, mid) ==
    glz_server \o API_MATCHES \o "/" \o PyFormat(mid) \o "/lock/" \o agent_id

\* line 301
quit_pregame_url(mid) == glz_server \o API_MATCHES \o "/" \o PyFormat(mid) \o "/quit"

\* line 326
get_current_game_match_url(mid) ==
    glz_server \o API_CURRENT_GAME_MATCH \o "/" \o PyFormat(mid)

\* line 338
get_current_game_loadout_url(mid) ==
    glz_server \o API_CURRENT_GAME_MATCH \o "/" \o PyFormat(mid) \o "/loadouts"

\* the URL of endpoint ep once the match value mid is known
MatchUrl(ep, agent_id, mid) ==
    CASE ep = "get_pregame_match" -> get_pregame_match_url(mid)
      [] ep = "get_pregame_loadout" -> get_pregame_loadout_url(mid)
      [] ep = "select_agent" -> select_agent_url(agent_id, mid)
      [] ep = "lock_agent" -> lock_agent_url(agent_id, mid)
      [] ep = "quit_pregame" -> quit_pregame_url(mid)
      [] ep = "get_current_game_match" -> get_current_game_match_url(mid)
      [] ep = "get_current_game_loadout" -> get_current_game_loadout_url(mid)

\* what the endpoint keeps of the get_pregame_id() answer when no match ID is
\* given: its "MatchID" entry (lines 250, 262, 323, 335) or the answer itself
\* (lines 274, 286, 298)
Kept(ep) ==
    IF ep \in {"select_agent", "lock_agent", "quit_pregame"} THEN "whole" ELSE "MatchID"

\* the endpoint starts: with the match ID given its URL is built at once,
\* without one self.get_pregame_id() is called first
BeginMatch(t, ep, method, agent_id, match_id) ==
    IF match_id # <<>>
    THEN Begin(t, ep, method, MatchUrl(ep, agent_id, Str(match_id[1])), EntAcc, TRUE)
    ELSE IF user_info.sub = NoSub
    THEN Fail(t, ep, "KeyError")
    ELSE /\ th' = [th EXCEPT ![t] = [Idle EXCEPT !.pc = "hdr", !.ep = ep,
                                       !.phase = "lookup", !.cont = Kept(ep),
                                       !.agent = agent_id, !.method = method,
                                       !.url = PregameIdUrl(user_info.sub),
                                       !.todo = EntAcc]]
         /\ UNCHANGED <<client, tokens, srv_valid>>

\* lines 248-258
get_pregame_match(t) ==
    /\ CanCall(t)
    /\ \E m \in GivenMatchIds : BeginMatch(t, "get_pregame_match", "GET", "", m)

\* lines 260-270
get_pregame_loadout(t) ==
    /\ CanCall(t)
    /\ \E m \in GivenMatchIds : BeginMatch(t, "get_pregame_loadout", "GET", "", m)

\* lines 272-282
select_agent(t) ==
    /\ CanCall(t)
    /\ \E a \in AgentIds, m \in GivenMatchIds : BeginMatch(t, "select_agent", "POST", a, m)

\* lines 284-294
lock_agent(t) ==
    /\ CanCall(t)
    /\ \E a \in AgentIds, m \in GivenMatchIds : BeginMatch(t, "lock_agent", "POST", a, m)

\* lines 296-306
quit_pregame(t) ==
    /\ CanCall(t)
    /\ \E m \in GivenMatchIds : BeginMatch(t, "quit_pregame", "POST", "", m)

\* lines 321-331
get_current_game_match(t) ==
    /\ CanCall(t)
    /\ \E m \in GivenMatchIds : BeginMatch(t, "get_current_game_match", "GET", "", m)

\* lines 333-343
get_current_game_loadout(t) ==
    /\ CanCall(t)
    /\ \E m \in GivenMatchIds : BeginMatch(t, "get_current_game_loadout", "GET", "", m)

-----------------------------------------------------------------------------
(* Headers, the HTTP exchange and the decoding of the answer *)

\* the Authorization header built from the access token of the login instead
\* of the current one
ReadToken_stale(t) ==
    /\ th[t].pc = "hdr"
    /\ th[t].todo # <<>>
    /\ Head(th[t].todo) # "ver"
    /\ th' = [th EXCEPT ![t] =
                CASE Head(th[t].todo) = "ent" ->
                       [@ EXCEPT !.ent = get_entitlement_token, !.todo = Tail(@)]
                  [] Head(th[t].todo) = "id" ->
                       [@ EXCEPT !.idt = get_id_token, !.todo = Tail(@)]
                  [] OTHER ->
                       [@ EXCEPT !.acc = 1, !.todo = Tail(@)]]
    /\ UNCHANGED <<client, tokens, srv_valid>>

\* one header value (or the id_token of get_region's body) is evaluated: a
\* token is read from Auth
ReadToken(t) ==
    /\ th[t].pc = "hdr"
    /\ th[t].todo # <<>>
    /\ Head(th[t].todo) # "ver"
    /\ th' = [th EXCEPT ![t] =
                CASE Head(th[t].todo) = "ent" ->
                       [@ EXCEPT !.ent = get_entitlement_token, !.todo = Tail(@)]
                  [] Head(th[t].todo) = "id" ->
                       [@ EXCEPT !.idt = get_id_token, !.todo = Tail(@)]
                  [] OTHER ->
                       [@ EXCEPT !.acc = get_access_token, !.todo = Tail(@)]]
    /\ UNCHANGED <<client, tokens, srv_valid>>

\* the call of thread t ends with result res
Finish(t, res) == [th[t] EXCEPT !.pc = "done", !.result = res]

\* lines 45-54, self.client_version evaluated as a header value: the GET to
\* the version endpoint goes out (lines 51-52) and the caller blocks in it
\* while other threads run
client_version(t) ==
    /\ th[t].pc = "hdr"
    /\ th[t].todo # <<>>
    /\ Head(th[t].todo) = "ver"
    /\ th' = [th EXCEPT ![t] = [@ EXCEPT !.pc = "version"]]
    /\ UNCHANGED <<client, tokens, srv_valid>>

\* lines 51-54: the version request ends; .json()["data"]["riotClientVersion"]
\* gives the header value, or the request, the decoder or a subscript raises
\* and the endpoint method is left before its own request is made
VersionAnswer(t) ==
    /\ th[t].pc = "version"
    /\ \/ th' = [th EXCEPT ![t] = [@ EXCEPT !.pc = "hdr", !.ver = TRUE,
                                             !.todo = Tail(@)]]
       \/ \E e \in VersionErrors : th' = [th EXCEPT ![t] = Finish(t, Raise(e))]
    /\ UNCHANGED <<client, tokens, srv_valid>>

\* the bodies a server sends with status 200 to the request of thread t
OkBodies(t) ==
    IF th[t].phase = "lookup" \/ th[t].ep = "get_pregame_id"
    THEN {PregameBody(user_info.sub, m) : m \in MatchIds}
    ELSE IF th[t].ep = "get_region"
    THEN {GeoBody(a) : a \in AffinityCodes}
    ELSE {DataBody}

\* the answers (status, body) a server may give to the request of thread t
Responses(t) ==
    LET status == StatusFor(th[t].acc) IN
    {[status |-> status, body |-> b] :
        b \in (IF status = 200 THEN OkBodies(t) ELSE {ErrorBody}) \cup {NotJson}}

\* a decoder failure turned into an error value that is returned
Decoded_lenient(decode, resp) ==
    IF ~decode THEN Return(PyNone)
    ELSE IF resp.body = NotJson THEN Return([type |-> "MalformedResponse"])
    ELSE Return(resp.body)

\* response.json(), whatever the status: the decoded body, or the decoder's
\* exception; set_loadout does not decode and returns None
Decoded(decode, resp) ==
    IF ~decode THEN Return(PyNone)
    ELSE IF resp.body = NotJson THEN Raise("JSONDecodeError")
    ELSE Return(resp.body)

\* the request of thread t as it reaches the server, with the status and the
\* kind of body the server answers it with
Request(t, resp) ==
    [method |-> IF th[t].phase = "lookup" THEN "GET" ELSE th[t].method,
     url |-> th[t].url, phase |-> th[t].phase, ent |-> th[t].ent,
     acc |-> th[t].acc, idt |-> th[t].idt, ver |-> th[t].ver, status |-> resp.status, is_json |-> resp.body # NotJson]

\* session.get/post/put(url, headers): the request goes out and reaches the
\* server, which answers it; the caller then waits for the answer while other
\* threads run. An empty URL is refused by the HTTP library before anything is
\* sent. overlap notes, for both calls, that two requests are in flight
\* together; geo_calls counts the requests to the geolocation service.
Send(t) ==
    /\ th[t].pc = "hdr"
    /\ th[t].todo = <<>>
    /\ IF th[t].url = ""
       THEN th' = [th EXCEPT ![t] = [@ EXCEPT !.pc = "done",
                                               !.result = Raise("MissingSchema")]]
       ELSE \E resp \in Responses(t) :
              th' = [u \in Threads |->
                       IF u = t
                       THEN [th[t] EXCEPT
                               !.pc = "wire", !.resp = resp,
                               !.sent = Append(@, Request(t, resp)),
                               !.overlap = @ \/ \E v \in Threads \ {t} :
                                                   th[v].pc = "wire"]
                       ELSE IF th[u].pc = "wire"
                       THEN [th[u] EXCEPT !.overlap = TRUE]
                       ELSE th[u]]
    /\ geo_calls' = IF th[t].ep = "get_region" /\ th[t].url # ""
                    THEN geo_calls + 1 ELSE geo_calls
    /\ UNCHANGED <<attrs, geo_live, tokens, srv_valid>>

\* get_pregame_id() has returned body: the endpoint keeps the match value and
\* builds its own URL
AfterLookup(t, resp) ==
    IF th[t].cont = "MatchID" /\ resp.body.type # "pregame"
    THEN Finish(t, Raise("KeyError"))
    ELSE LET mid == IF th[t].cont = "MatchID"
                    THEN Str(resp.body.MatchID) ELSE resp.body IN
         [th[t] EXCEPT !.pc = "hdr", !.phase = "main", !.lookup = resp.body,
                       !.url = MatchUrl(th[t].ep, th[t].agent, mid),
                       !.todo = EntAcc, !.ent = 0, !.acc = 0]

\* lines 88-89 for the caller of get_region: the Region of the decoded answer
\* is returned, or the exception of .json() or of a subscript is raised
RegionResult(resp) ==
    LET r == RegionOf(resp.status, resp.body # NotJson,
                      IF resp.body.type = "geo" THEN resp.body.live ELSE Unset) IN
    IF r.ok
    THEN Return([type |-> "Region", region |-> r.value.region, shard |-> r.value.shard])
    ELSE Raise(r.exc)

\* the "live" affinity the geolocation service is known to have answered with
\* once thread t has decoded the answer resp
GeoLive(t, resp) ==
    IF th[t].ep = "get_region" /\ resp.body.type = "geo" THEN resp.body.live
    ELSE geo_live

\* what the method of thread t does with the answer: get_region looks the
\* affinity up, a match-addressed endpoint goes on after its lookup, every
\* other method returns the decoded body
Handled(t) ==
    IF th[t].ep = "get_region"
    THEN Finish(t, RegionResult(th[t].resp))
    ELSE IF th[t].phase = "lookup"
    THEN IF Decoded(TRUE, th[t].resp).kind = "raise"
         THEN Finish(t, Decoded(TRUE, th[t].resp))
         ELSE AfterLookup(t, th[t].resp)
    ELSE Finish(t, Decoded(th[t].decode, th[t].resp))

\* the answer handled with a refresh and one retry after a 401
Receive_retry(t) ==
    /\ th[t].pc = "wire"
    /\ IF th[t].resp.status = 401 /\ th[t].refreshed = 0 /\ tokens.access <= MaxRefresh
       THEN /\ th' = [th EXCEPT ![t] = [@ EXCEPT !.pc = "hdr", !.todo = EntAcc,
                                                 !.refreshed = 1]]
            /\ tokens' = TokenSet(tokens.access + 1)
            /\ srv_valid' = tokens.access + 1
            /\ UNCHANGED client
       ELSE /\ th' = [th EXCEPT ![t] = Handled(t)]
            /\ geo_live' = GeoLive(t, th[t].resp)
            /\ UNCHANGED <<attrs, geo_calls, tokens, srv_valid>>

\* the answer has arrived: .json() decodes it and the method returns (or, after
\* the lookup of a match-addressed endpoint, goes on to its own request)
Receive(t) ==
    /\ th[t].pc = "wire"
    /\ th' = [th EXCEPT ![t] = Handled(t)]
    /\ geo_live' = GeoLive(t, th[t].resp)
    /\ UNCHANGED <<attrs, geo_calls, tokens, srv_valid>>

-----------------------------------------------------------------------------
(* Specifications *)

Init ==
    /\ init_pc = "start"
    /\ init_err = "none"
    /\ steps = <<>>
    /\ cookies = FALSE
    /\ tokens = NoTokens
    /\ region = NoRegion
    /\ pd_server = Unset
    /\ glz_server = Unset
    /\ user_info = NoUser
    /\ geo_calls = 0
    /\ geo_live = Unset
    /\ srv_valid = 0
    /\ th = [t \in Threads |-> Idle]

\* one caller: every endpoint
Next ==
    \/ Construct
    \/ Expire
    \/ \E t \in {1} :
         \/ AuthRefresh(t)
         \/ get_user_info(t) \/ get_content(t) \/ get_account_xp(t)
         \/ get_loadout(t) \/ set_loadout(t) \/ get_player_mmr(t)
         \/ get_match_history(t) \/ get_match_details(t) \/ get_leaderboard(t)
         \/ get_penalties(t) \/ get_config(t) \/ get_prices(t) \/ get_store(t)
         \/ get_wallet(t) \/ get_items(t) \/ get_pregame_id(t)
         \/ get_pregame_match(t) \/ get_pregame_loadout(t) \/ select_agent(t)
         \/ lock_agent(t) \/ quit_pregame(t) \/ get_current_game_player(t)
         \/ get_current_game_match(t) \/ get_current_game_loadout(t)
         \/ get_item_upgrades(t) \/ get_contracts(t) \/ get_region(t)
         \/ ReadToken(t) \/ client_version(t) \/ VersionAnswer(t)
         \/ Send(t) \/ Receive(t)

Spec == Init /\ [][Next]_vars

\* two callers sharing the client object
NextConc ==
    \/ Construct
    \/ Expire
    \/ \E t \in Threads :
         \/ AuthRefresh(t)
         \/ get_wallet(t) \/ get_prices(t) \/ get_store(t)
         \/ ReadToken(t) \/ client_version(t) \/ VersionAnswer(t)
         \/ Send(t) \/ Receive(t)

SpecConc == Init /\ [][NextConc]_vars

\* one caller inside any region-routed endpoint while a second thread of the
\* application refreshes the tokens at any moment, also between two header
\* evaluations and while the caller waits for an answer
NextRefresh ==
    \/ Construct
    \/ Expire
    \/ AuthRefresh(2)
    \/ \E t \in {1} :
         \/ get_content(t) \/ get_account_xp(t)
         \/ get_loadout(t) \/ set_loadout(t) \/ get_player_mmr(t)
         \/ get_match_history(t) \/ get_match_details(t) \/ get_leaderboard(t)
         \/ get_penalties(t) \/ get_config(t) \/ get_prices(t) \/ get_store(t)
         \/ get_wallet(t) \/ get_items(t) \/ get_pregame_id(t)
         \/ get_pregame_match(t) \/ get_pregame_loadout(t) \/ select_agent(t)
         \/ lock_agent(t) \/ quit_pregame(t) \/ get_current_game_player(t)
         \/ get_current_game_match(t) \/ get_current_game_loadout(t)
         \/ get_item_upgrades(t) \/ get_contracts(t)
         \/ ReadToken(t) \/ client_version(t) \/ VersionAnswer(t)
         \/ Send(t) \/ Receive(t)

SpecRefresh == Init /\ [][NextRefresh]_vars

-----------------------------------------------------------------------------
(* Properties *)

Last(q) == q[Len(q)]

\* the requests of the current call of thread t sent for the endpoint's own URL
MainSent(t) == SelectSeq(th[t].sent, LAMBDA r : r.phase = "main")

\* the call of thread t has ended and the answer to its endpoint request was a 401
Rejected(t) ==
    /\ th[t].pc = "done"
    /\ MainSent(t) # <<>>
    /\ MainSent(t)[1].status = 401

\* what a call whose only answer was a 401 hands to its caller
Got401(t) ==
    IF ~th[t].decode THEN Return(PyNone)
    ELSE IF ~Last(th[t].sent).is_json THEN Raise("JSONDecodeError")
    ELSE IF th[t].ep = "get_region" THEN Raise("KeyError")
    ELSE Return(ErrorBody)

\* C1 as claimed: a call whose first attempt is answered 401 has triggered
\* exactly one refresh and made exactly one retry, and ends with Unauthorized
\* if the retry is rejected too.
C1_RefreshAndRetryOnce ==
    \A t \in Threads :
        Rejected(t) =>
            /\ th[t].refreshed = 1
            /\ Len(MainSent(t)) = 2
            /\ (MainSent(t)[2].status = 401 => th[t].result = Raise("Unauthorized"))

\* C1 amended: no call triggers a refresh and no request is sent twice: a call
\* sends its endpoint request at most once (after at most one lookup request),
\* and a 401 answer is decoded and handed to the caller like any other answer.
C1_SingleAttemptNoRefresh ==
    \A t \in Threads :
        /\ th[t].refreshed = 0
        /\ Len(MainSent(t)) <= 1
        /\ Len(th[t].sent) - Len(MainSent(t)) <= 1
        /\ (Rejected(t) => th[t].result = Got401(t))

C1_Witness ==
    \E t \in Threads :
        /\ Rejected(t)
        /\ th[t].ep = "get_account_xp"
        /\ th[t].result = Return(ErrorBody)

\* both callers' calls have ended, each was answered 401, and the two requests
\* were in flight together
SimultaneousExpiry ==
    \A t \in Threads :
        /\ th[t].pc = "done"
        /\ th[t].sent # <<>>
        /\ th[t].sent[1].status = 401
        /\ th[t].overlap

\* C2 as claimed: two calls hitting an expired token at the same time cause
\* exactly one refresh in total and both succeed.
C2_OneRefreshBothSucceed ==
    SimultaneousExpiry =>
        /\ th[1].refreshed + th[2].refreshed = 1
        /\ \A t \in Threads :
             th[t].result.kind = "return" /\ Last(th[t].sent).status = 200

\* the two simultaneous calls made no refresh and no retry, and neither succeeds
NeitherRetried ==
    SimultaneousExpiry =>
        \A t \in Threads :
            /\ th[t].refreshed = 0
            /\ Len(th[t].sent) = 1
            /\ th[t].sent[1].status = 401
            /\ th[t].result = Got401(t)
            /\ th[t].result \in {Return(ErrorBody), Raise("JSONDecodeError")}

\* C2 amended: two calls hitting an expired token at the same time cause no
\* refresh and no retry; each sends one request and hands its 401 answer to
\* its caller (the decoded error body, or the decoder's exception when the
\* body is not JSON), and no step of a call changes the TokenSet or what the
\* servers accept.
C2_NoRefreshNoRetry ==
    /\ []NeitherRetried
    /\ [][th' # th => (tokens' = tokens /\ srv_valid' = srv_valid)]_vars

C2_Witness ==
    /\ SimultaneousExpiry
    /\ \A t \in Threads : th[t].result = Return(ErrorBody)
    /\ th[1].ep = "get_wallet"

\* C3 as claimed: the two tokens of every request come from one TokenSet.
C3_TokensOfOneSet ==
    \A t \in Threads :
        \A i \in DOMAIN th[t].sent : th[t].sent[i].ent = th[t].sent[i].acc

\* C3 amended: the two tokens are read one after the other from the current
\* TokenSet; when the token read first is still the current one at the second
\* read (no refresh in between), both tokens of the request are of one TokenSet.
C3_SameSetUnlessRefreshed ==
    [][\A t \in Threads :
         (/\ th[t].pc = "hdr" /\ th'[t].pc = "hdr"
          /\ (th[t].ent = 0) # (th[t].acc = 0)
          /\ th'[t].ent # 0 /\ th'[t].acc # 0
          /\ (IF th[t].ent = 0 THEN th[t].acc ELSE th[t].ent) = tokens.access)
         => th'[t].ent = th'[t].acc]_vars

C3_Witness ==
    \E t \in Threads :
        /\ th[t].pc = "done"
        /\ th[t].ep = "get_player_mmr"
        /\ th[t].sent # <<>>
        /\ th[t].sent[1].ent = 2
        /\ th[t].sent[1].acc = 2
        /\ tokens.access = 3

IsPrefix(p, q) == Len(p) <= Len(q) /\ \A i \in 1..Len(p) : p[i] = q[i]

StartupOrder == <<"version", "set_auth_cookies", "get_region", "urls", "get_user_info">>

StartupState ==
    /\ IsPrefix(steps, StartupOrder)
    /\ (cookies \/ geo_calls > 0) => Len(steps) >= 2
    /\ region # NoRegion => Len(steps) >= 3
    /\ (pd_server # Unset \/ glz_server # Unset) =>
           /\ Len(steps) >= 4
           /\ pd_server # Unset /\ glz_server # Unset /\ region # NoRegion
    /\ user_info # NoUser => Len(steps) = 5
    /\ \A t \in Threads :
         th[t] # Idle =>
            /\ init_pc = "ready" /\ Len(steps) = 5
            /\ region # NoRegion /\ pd_server # Unset /\ glz_server # Unset
    /\ init_pc = "failed" => Len(steps) < 5 /\ init_err # "none"

\* C4: the constructor's steps run in the order login, region resolution,
\* base URLs, user info; no endpoint call is in progress or has been made
\* unless all of them completed; and once a step has failed nothing of the
\* client changes any more.
C4_StartupOrder ==
    /\ []StartupState
    /\ [][init_pc = "failed" => client' = client /\ th' = th]_vars

C4_Witness ==
    /\ init_pc = "ready"
    /\ steps = StartupOrder
    /\ \E t \in Threads : th[t].pc = "done" /\ th[t].sent # <<>>

\* C5: the base URLs are https://pd.<region>.a.pvp.net and
\* https://glz-<region>-1.<shard>.a.pvp.net for the resolved region, and for
\* region na1, shard na1 they are the two URLs of the example.
C5_BaseUrls ==
    Len(steps) >= 4 =>
        /\ pd_server = "https://pd." \o region.region \o ".a.pvp.net"
        /\ glz_server = "https://glz-" \o region.region \o "-1." \o region.shard
                           \o ".a.pvp.net"
        /\ (region = [region |-> "na1", shard |-> "na1"] =>
               /\ pd_server = "https://pd.na1.a.pvp.net"
               /\ glz_server = "https://glz-na1-1.na1.a.pvp.net")
        /\ (region = [region |-> "br1", shard |-> "na1"] =>
               /\ pd_server = "https://pd.br1.a.pvp.net"
               /\ glz_server = "https://glz-br1-1.na1.a.pvp.net")

C5_Witness ==
    /\ init_pc = "ready"
    /\ region = [region |-> "na1", shard |-> "na1"]
    /\ glz_server = "https://glz-na1-1.na1.a.pvp.net"

\* construction has met a geolocation answer whose affinity has no entry in
\* the region table
InitUnknownRegion ==
    init_pc # "ready" /\ geo_live # Unset /\ geo_live \notin RegionCodes

\* construction has stopped after one geolocation request, and nothing that
\* follows region resolution has happened
StoppedAtRegion ==
    /\ init_pc = "failed"
    /\ geo_calls = 1
    /\ region = NoRegion
    /\ pd_server = Unset /\ glz_server = Unset
    /\ user_info = NoUser
    /\ \A t \in Threads : th[t] = Idle

\* C6 as claimed: a geolocation answer whose affinity has no entry in the
\* region table ends construction with the error UnknownRegion after one
\* geolocation call; no region is set, no base URL is built, no user info is
\* fetched, no call is possible.
C6_UnknownRegion ==
    InitUnknownRegion => (StoppedAtRegion /\ init_err = "UnknownRegion")

\* what an affinity without a table entry leads to, in construction and in a
\* later get_region call
RegionKeyError ==
    /\ InitUnknownRegion => (StoppedAtRegion /\ init_err = "KeyError")
    /\ init_pc = "ready" => \E c \in RegionCodes : region = regions(c)
    /\ \A t \in Threads :
         (/\ th[t].ep = "get_region" /\ th[t].pc = "done"
          /\ th[t].resp.status = 200 /\ th[t].resp.body.type = "geo"
          /\ th[t].resp.body.live \notin RegionCodes) =>
            /\ th[t].result = Raise("KeyError")
            /\ Len(th[t].sent) = 1
            /\ geo_live = th[t].resp.body.live

\* C6 amended: such an answer ends construction with the KeyError of the
\* table subscript after one geolocation call, with no region, base URL or
\* user info; a constructed client has a region of the table; get_region
\* called on a constructed client and answered so raises the same KeyError
\* after its one request; and no step of a get_region call changes the
\* client's region, base URLs or user info.
C6_LookupKeyError ==
    /\ []RegionKeyError
    /\ [][\A t \in Threads :
            (th'[t].ep = "get_region" /\ th'[t] # th[t]) => attrs' = attrs]_vars

C6_Witness ==
    /\ geo_live = "xx9"
    /\ init_pc = "failed"
    /\ init_err = "KeyError"
    /\ steps = <<"version", "set_auth_cookies">>

\* the call of thread t has ended on a 200 answer whose body is not JSON
EndedMalformed(t) ==
    /\ th[t].pc = "done"
    /\ th[t].sent # <<>>
    /\ Last(th[t].sent).status = 200
    /\ ~Last(th[t].sent).is_json

\* C7 as claimed: a 200 answer whose body is not JSON is returned to the
\* caller as the error value MalformedResponse, no exception is raised.
C7_MalformedIsReturned ==
    \A t \in Threads :
        (EndedMalformed(t) /\ th[t].decode) =>
            th[t].result = Return([type |-> "MalformedResponse"])

\* C7 amended: a 200 answer whose body is not JSON makes a call that decodes
\* its answer raise the decoder's JSONDecodeError (set_loadout, which does not
\* decode, returns None), and the step leaves tokens, region, base URLs and
\* user info as they were.
C7_DecoderErrorRaised ==
    [][\A t \in Threads :
         (th[t].pc = "wire" /\ EndedMalformed(t)') =>
            /\ th'[t].result =
                  (IF th[t].decode THEN Raise("JSONDecodeError") ELSE Return(PyNone))
            /\ tokens' = tokens
            /\ client' = client]_vars

C7_Witness ==
    \E t \in Threads :
        /\ EndedMalformed(t)
        /\ th[t].ep = "get_content"
        /\ th[t].result = Raise("JSONDecodeError")

\* C8: after construction no step changes region, pd_server or glz_server, and
\* the base URLs stay the ones derived from the region.
C8_RegionFrame ==
    [][init_pc = "ready" =>
         /\ region' = region
         /\ pd_server' = pd_server
         /\ glz_server' = glz_server
         /\ pd_server' = PdServer(region')
         /\ glz_server' = GlzServer(region')]_vars

C8_Witness ==
    \E t \in Threads :
        /\ th[t].pc = "done"
        /\ th[t].ep = "get_config"
        /\ th[t].sent # <<>>
        /\ th[t].sent[1].status = 401
        /\ tokens.access = 2
        /\ pd_server = PdServer(region)

\* the rest of the action's path after the match ID
ActionSuffix(ep, agent_id) ==
    CASE ep = "select_agent" -> "/select/" \o agent_id
      [] ep = "lock_agent" -> "/lock/" \o agent_id
      [] ep = "quit_pregame" -> "/quit"

\* C9: without pregame_match_id, select_agent, lock_agent and quit_pregame
\* look the match up once and put the MatchID of the answer in the path.
C9_ActionUsesMatchID ==
    \A t \in Threads :
        (/\ th[t].ep \in {"select_agent", "lock_agent", "quit_pregame"}
         /\ th[t].phase = "main"
         /\ th[t].lookup.type = "pregame") =>
            /\ th[t].sent[1].url = PregameIdUrl(user_info.sub)
            /\ th[t].url = glz_server \o API_MATCHES \o "/" \o th[t].lookup.MatchID
                              \o ActionSuffix(th[t].ep, th[t].agent)

\* C10: get_leaderboard requests the account base URL followed by the
\* leaderboard path, the season and the startIndex/size parameters, with or
\* without a username; the username only adds the query parameter.
C10_LeaderboardUrl ==
    \A t \in Threads :
        th[t].ep = "get_leaderboard" =>
            LET a == th[t].args
                base == pd_server \o API_LEADERBOARD \o "/" \o a[1]
                           \o "?startIndex=" \o IntToStr(a[2])
                           \o "&size=" \o IntToStr(a[3])
            IN /\ th[t].url \in {base, base \o "&query=" \o FormatOpt(a[4])}
               /\ ((th[t].pc = "done" /\ th[t].ver) =>
                      Len(th[t].sent) = 1 /\ th[t].sent[1].url = th[t].url)

====
